---- MODULE Spec2Model ----
(***************************************************************************)
(* CLC Timetable (src/app.py): the timetable version store behind          *)
(* get_timetable / get_all_timetables / save_timetable / delete_timetable, *)
(* the admin gate (verify_admin, st.session_state.admin_authed), the       *)
(* upload form and the version history with its delete buttons, and the    *)
(* term/week label of the header.                                          *)
(*                                                                         *)
(* Every repository function is one HTTP request to the hosted table.      *)
(* Streamlit runs each browser session's script in a thread of its own, so *)
(* the requests of different sessions interleave; a step of the model is   *)
(* one request executing on the table (or raising), or a piece of a script *)
(* run between two requests.                                               *)
(***************************************************************************)
EXTENDS Integers, Sequences, FiniteSets, TLC

\* ------------------------------------------------------------------ bounds
\* Rows the table ever receives (ids 1..MaxRows).
MaxRows == 2
\* Distinct readings of the wall clock (0..MaxClock).
MaxClock == 1
\* Length of the text typed into the Label field.
MaxLabelLen == 2

\* ------------------------------------------------------- program constants
PROGRAMS == <<"General", "JP", "PY", "SY">>

\* The code treats every program alike (a column value and the argument of
\* .eq("program", ...)); the sessions of the model work on two of the four tabs.
Programs == {PROGRAMS[1], PROGRAMS[2]}

\* The browser sessions connected to the server.
Sessions == {"s1", "s2"}

\* st.secrets: either without ADMIN_PASSWORD or with one configured.
NoSecret == [configured |-> FALSE]

SecretsChoices == {NoSecret, [configured |-> TRUE, ADMIN_PASSWORD |-> "s3cret"]}

DefaultPassword == "CLC2026admin"

\* What a user may type into the password field.
Passwords == {"CLC2026admin", "s3cret", "letmein", ""}

\* Characters typed into the Label field; str.strip() removes the blank ones.
Whitespace == {" ", "\t"}

Chars == {" ", "a"}

RECURSIVE SeqsUpTo(_, _)
SeqsUpTo(S, n) ==
    IF n = 0 THEN {<<>>}
    ELSE LET shorter == SeqsUpTo(S, n - 1)
         IN shorter \cup {Append(s, c) : s \in {t \in shorter : Len(t) = n - 1}, c \in S}

LabelInputs == SeqsUpTo(Chars, MaxLabelLen)

\* The label texts typed while several sessions work at once.
FewLabels == {<<" ">>, <<" ", "a">>}

\* st.file_uploader: None, or the uploaded file.
NoFile == [none |-> TRUE]

FileInputs == {NoFile, [name |-> "tt.pdf", raw |-> <<37, 80>>]}

\* Python's None, as get_timetable returns it.
None == [none |-> TRUE]

\* ------------------------------------------------- SA School Calendar 2026
MkDate(y, m, d) == [year |-> y, month |-> m, day |-> d]

\* (term_number, first_monday, total_weeks)
SA_TERMS ==
    << <<1, MkDate(2026, 1, 26), 11>>,
       <<2, MkDate(2026, 4, 27), 10>>,
       <<3, MkDate(2026, 7, 20), 10>>,
       <<4, MkDate(2026, 10, 12), 9>> >>

\* datetime.date: the proleptic Gregorian calendar.
IsLeap(y) == y % 4 = 0 /\ (y % 100 # 0 \/ y % 400 = 0)

DaysInMonth(y, m) ==
    IF m = 2 THEN (IF IsLeap(y) THEN 29 ELSE 28)
    ELSE IF m \in {4, 6, 9, 11} THEN 30 ELSE 31

DaysBeforeYear(y) ==
    (y - 1) * 365 + ((y - 1) \div 4) - ((y - 1) \div 100) + ((y - 1) \div 400)

RECURSIVE DaysBeforeMonth(_, _)
DaysBeforeMonth(y, m) ==
    IF m = 1 THEN 0 ELSE DaysBeforeMonth(y, m - 1) + DaysInMonth(y, m - 1)

\* date.toordinal()
ToOrdinal(d) == DaysBeforeYear(d.year) + DaysBeforeMonth(d.year, d.month) + d.day

\* The days date.today() is drawn from: the calendar's year and the two around it.
Years == {2025, 2026, 2027}

Dates == UNION {{MkDate(y, m, d) : d \in 1..DaysInMonth(y, m)} : y \in Years, m \in 1..12}

\* date.fromordinal(n)
FromOrdinal(n) ==
    LET y == CHOOSE y \in Years : DaysBeforeYear(y) < n /\ n <= DaysBeforeYear(y + 1)
        m == CHOOSE m \in 1..12 :
                 /\ DaysBeforeYear(y) + DaysBeforeMonth(y, m) < n
                 /\ n <= DaysBeforeYear(y) + DaysBeforeMonth(y, m) + DaysInMonth(y, m)
    IN MkDate(y, m, n - DaysBeforeYear(y) - DaysBeforeMonth(y, m))

\* date.__le__ / date.__lt__: by (year, month, day).
DateLT(a, b) ==
    \/ a.year < b.year
    \/ a.year = b.year /\ a.month < b.month
    \/ a.year = b.year /\ a.month = b.month /\ a.day < b.day

DateLE(a, b) == a = b \/ DateLT(a, b)

\* f"Term {term_num}  (middle dot)  Week {week_num}"; the middle dot and the
\* dash of the pre-term text are written in ASCII here.
TermWeek(term_num, week_num) == <<"Term ", term_num, "  .  Week ", week_num>>

PreTerm == <<"Week 0 - Pre-Term">>

Holidays == <<"School Holidays">>

Unset == <<>>

\* The term without its last day (< for the second <=).
InTermExclusiveEnd(d, first_mon, term_end) == DateLE(first_mon, d) /\ DateLT(d, term_end)

\* `first_mon <= today <= term_end`
InTerm(d, first_mon, term_end) == DateLE(first_mon, d) /\ DateLE(d, term_end)

\* A week that turns on the seventh day instead of after it.
WeekNumTurnsEarly(d, first_mon) == ((ToOrdinal(d) - ToOrdinal(first_mon) + 1) \div 7) + 1

\* `(today - first_mon).days // 7 + 1`
WeekNum(d, first_mon) == ((ToOrdinal(d) - ToOrdinal(first_mon)) \div 7) + 1

\* get_term_week_label: the for loop from term i on, then the two fall-backs.
RECURSIVE TermLoop(_, _)
TermLoop(d, i) ==
    IF i > Len(SA_TERMS)
    THEN IF DateLT(d, SA_TERMS[1][2]) THEN PreTerm ELSE Holidays
    ELSE LET term_num == SA_TERMS[i][1]
             first_mon == SA_TERMS[i][2]
             total_weeks == SA_TERMS[i][3]
             term_end == FromOrdinal(ToOrdinal(first_mon) + total_weeks * 7 - 1)
         IN IF InTerm(d, first_mon, term_end)
            THEN TermWeek(term_num, WeekNum(d, first_mon))
            ELSE TermLoop(d, i + 1)

GetTermWeekLabel(d) == TermLoop(d, 1)

VARIABLES
    store,          \* the rows of table timetable_store
    nextId,         \* the table's auto-increment id sequence
    clock,          \* datetime.now(timezone.utc)
    secrets,        \* st.secrets
    admin_authed,   \* st.session_state.admin_authed, per session
    pc,             \* where each session's script run stands
    pending,        \* the request a session's script run is about to execute
    ret,            \* outcome of the most recent call or form submission
    today,          \* date.today()
    term_label      \* the header's term_label

hdr == <<today, term_label>>

vars == <<store, nextId, clock, secrets, admin_authed, pc, pending, ret, today, term_label>>

\* ------------------------------------------------------------ pure helpers

\* str.strip(): drop leading and trailing whitespace.
RECURSIVE LStrip(_)
LStrip(s) == IF s # <<>> /\ Head(s) \in Whitespace THEN LStrip(Tail(s)) ELSE s

RECURSIVE RStrip(_)
RStrip(s) ==
    IF s # <<>> /\ s[Len(s)] \in Whitespace THEN RStrip(SubSeq(s, 1, Len(s) - 1)) ELSE s

\* A trim of the leading blanks only (lstrip for strip).
StripLeadingOnly(s) == LStrip(s)

Strip(s) == RStrip(LStrip(s))

\* base64.b64encode(raw).decode("utf-8"): an opaque text-safe encoding.
B64Encode(raw) == [b64 |-> raw]

\* .eq("program", program)
RowsOf(rows, program) == {r \in rows : r.program = program}

\* .order("uploaded_at", desc=True): the table promises the order of
\* uploaded_at only; rows with equal uploaded_at come in any order.
IsOrderedDesc(seq) ==
    \A i \in 1..Len(seq) : \A j \in 1..Len(seq) :
        i < j => seq[i].uploaded_at >= seq[j].uploaded_at

RECURSIVE Arrangements(_)
Arrangements(rows) ==
    IF rows = {} THEN {<<>>}
    ELSE UNION {{<<r>> \o rest : rest \in Arrangements(rows \ {r})} : r \in rows}

\* The order without desc=True: oldest first.
OrderAsc(rows) ==
    {seq \in Arrangements(rows) :
        \A i \in 1..Len(seq) : \A j \in 1..Len(seq) :
            i < j => seq[i].uploaded_at <= seq[j].uploaded_at}

OrderDesc(rows) == {seq \in Arrangements(rows) : IsOrderedDesc(seq)}

\* .limit(1)
Limit1(seq) == IF Len(seq) > 1 THEN SubSeq(seq, 1, 1) ELSE seq

\* .select("id, filename, label, uploaded_by, uploaded_at, program")
Summary(r) ==
    [id |-> r.id, filename |-> r.filename, label |-> r.label,
     uploaded_by |-> r.uploaded_by, uploaded_at |-> r.uploaded_at,
     program |-> r.program]

\* get_timetable, the store answering: every value the call may return.
GetTimetable(rows, program) ==
    {IF data # <<>> THEN data[1] ELSE None :
        data \in {Limit1(seq) : seq \in OrderDesc(RowsOf(rows, program))}}

\* get_all_timetables, the store answering: every list the call may return.
GetAllTimetables(rows, program) ==
    {[i \in 1..Len(seq) |-> Summary(seq[i])] : seq \in OrderDesc(RowsOf(rows, program))}

\* A check against the fixed default whatever is configured.
VerifyAdminDefaultOnly(sec, password) == password = DefaultPassword

\* verify_admin
VerifyAdmin(sec, password) ==
    password = (IF sec.configured THEN sec.ADMIN_PASSWORD ELSE DefaultPassword)

\* ------------------------------------------------------------------- state

NoCall == [op |-> "none", arg |-> "", raised |-> FALSE, value |-> FALSE, error |-> ""]

Idle == [kind |-> "idle"]

Init ==
    /\ store = {}
    /\ nextId = 1
    /\ clock = 0
    /\ secrets \in SecretsChoices
    /\ admin_authed = [s \in Sessions |-> FALSE]
    /\ pc = [s \in Sessions |-> "idle"]
    /\ pending = [s \in Sessions |-> Idle]
    /\ ret = NoCall
    /\ today = SA_TERMS[1][2]
    /\ term_label = Unset

\* The outcome of a call: what it returned and the st.error text it showed.
Outcome(op, arg, raised, value, error) ==
    [op |-> op, arg |-> arg, raised |-> raised, value |-> value, error |-> error]

\* The admin panel rendered without looking at the flag.
AdminPanelAlways(s) == TRUE

\* `if not st.session_state.admin_authed: <login form> else: <admin panel>`
AdminPanelShown(s) == admin_authed[s]

LoginFormShown(s) == ~admin_authed[s]

\* `is_current = (i == 0)` and `if not is_current: st.button(...)`, for the
\* i-th row of the list (the list counted from 1 here, from 0 in Python).
IsCurrent(i) == i = 1

DeleteOffered(i) == ~IsCurrent(i)

\* The row save_timetable sends: uploaded_at is read from the clock while
\* the request is built, before .execute() sends it.
NewRow(filename, file_b64, label, program, uploaded_by) ==
    [filename |-> filename, file_data |-> file_b64, label |-> label,
     program |-> program, uploaded_by |-> uploaded_by, uploaded_at |-> clock]

\* An insert whose uploaded_at is stamped when the table executes it.
InsertStampedByTable(rows, row, id) ==
    rows \cup {[id |-> id, filename |-> row.filename, file_data |-> row.file_data,
                label |-> row.label, program |-> row.program,
                uploaded_by |-> row.uploaded_by, uploaded_at |-> clock]}

\* .insert(row).execute(): the table assigns the next id.
Insert(rows, row, id) ==
    rows \cup {[id |-> id, filename |-> row.filename, file_data |-> row.file_data,
                label |-> row.label, program |-> row.program,
                uploaded_by |-> row.uploaded_by, uploaded_at |-> row.uploaded_at]}

\* A delete with .lte for .eq: the row and every older id.
DeleteUpTo(rows, row_id) == {r \in rows : r.id > row_id}

\* .delete().eq("id", row_id).execute()
Delete(rows, row_id) == {r \in rows : r.id # row_id}

\* Inserts that script runs have built and not yet executed.
InFlight == Cardinality({s \in Sessions : pc[s] = "insert"})

\* ----------------------------------------------------------------- actions

\* The wall clock advances.
Tick ==
    /\ clock < MaxClock
    /\ clock' = clock + 1
    /\ UNCHANGED <<store, nextId, secrets, admin_authed, pc, pending, ret>>
    /\ UNCHANGED hdr

\* A browser opens a fresh session: admin_authed is initialised to False.
NewSession(s) ==
    /\ pc[s] = "idle"
    /\ admin_authed' = [admin_authed EXCEPT ![s] = FALSE]
    /\ UNCHANGED <<store, nextId, clock, secrets, pc, pending, ret>>
    /\ UNCHANGED hdr

\* The admin_login form is submitted with password pw.
Login(s, pw) ==
    /\ pc[s] = "idle"
    /\ LoginFormShown(s)
    /\ IF VerifyAdmin(secrets, pw)
       THEN /\ admin_authed' = [admin_authed EXCEPT ![s] = TRUE]
            /\ ret' = Outcome("verify_admin", pw, FALSE, TRUE, "")
       ELSE /\ admin_authed' = admin_authed
            /\ ret' = Outcome("verify_admin", pw, FALSE, FALSE, "Incorrect password.")
    /\ UNCHANGED <<store, nextId, clock, secrets, pc, pending>>
    /\ UNCHANGED hdr

\* The Logout button of the upload form.
Logout(s) ==
    /\ pc[s] = "idle"
    /\ AdminPanelShown(s)
    /\ admin_authed' = [admin_authed EXCEPT ![s] = FALSE]
    /\ UNCHANGED <<store, nextId, clock, secrets, pc, pending, ret>>
    /\ UNCHANGED hdr

\* The "Upload & Set as Current" button of the upload form: the validation,
\* and save_timetable up to the point where the insert is sent.
Submit(s, file, lbl, prog_choice) ==
    /\ pc[s] = "idle"
    /\ AdminPanelShown(s)
    /\ IF file = NoFile
       THEN /\ ret' = Outcome("upload_form", prog_choice, FALSE, FALSE,
                              "Please choose a PDF file.")
            /\ UNCHANGED <<pc, pending>>
       ELSE IF Strip(lbl) = <<>>
       THEN /\ ret' = Outcome("upload_form", prog_choice, FALSE, FALSE,
                              "Please add a label.")
            /\ UNCHANGED <<pc, pending>>
       ELSE /\ nextId + InFlight <= MaxRows
            /\ pending' = [pending EXCEPT ![s] =
                   [kind |-> "insert",
                    row |-> NewRow(file.name, B64Encode(file.raw), Strip(lbl),
                                   prog_choice, "Admin")]]
            /\ pc' = [pc EXCEPT ![s] = "insert"]
            /\ ret' = ret
    /\ UNCHANGED <<store, nextId, clock, secrets, admin_authed>>
    /\ UNCHANGED hdr

\* save_timetable's insert executes on the table, or the call raises.
SaveExec(s, ok) ==
    /\ pc[s] = "insert"
    /\ IF ok
       THEN /\ store' = Insert(store, pending[s].row, nextId)
            /\ nextId' = nextId + 1
            /\ ret' = Outcome("save_timetable", pending[s].row.program,
                              FALSE, TRUE, "")
       ELSE /\ UNCHANGED <<store, nextId>>
            /\ ret' = Outcome("save_timetable", pending[s].row.program,
                              TRUE, FALSE, "Save failed")
    /\ pc' = [pc EXCEPT ![s] = "idle"]
    /\ pending' = [pending EXCEPT ![s] = Idle]
    /\ UNCHANGED <<clock, secrets, admin_authed>>
    /\ UNCHANGED hdr

\* render_timetable_view: get_timetable(program), any session.
ViewTimetable(s, program, ok) ==
    /\ pc[s] = "idle"
    /\ IF ok
       THEN \E v \in GetTimetable(store, program) :
                ret' = Outcome("get_timetable", program, FALSE, v, "")
       ELSE ret' = Outcome("get_timetable", program, TRUE, None, "Database error")
    /\ UNCHANGED <<store, nextId, clock, secrets, admin_authed, pc, pending>>
    /\ UNCHANGED hdr

\* The version history of one program: get_all_timetables(program); click = 0
\* is a run without a click, click = i a run in which the delete button of
\* the i-th listed row was pressed.
History(s, program, ok, click) ==
    /\ pc[s] = "idle"
    /\ AdminPanelShown(s)
    /\ IF ok
       THEN \E all_tt \in GetAllTimetables(store, program) :
                /\ ret' = Outcome("get_all_timetables", program, FALSE, all_tt, "")
                /\ IF click = 0
                   THEN UNCHANGED <<pc, pending>>
                   ELSE /\ click \in 1..Len(all_tt)
                        /\ DeleteOffered(click)
                        /\ pending' = [pending EXCEPT ![s] =
                               [kind |-> "delete", row_id |-> all_tt[click].id]]
                        /\ pc' = [pc EXCEPT ![s] = "delete"]
       ELSE /\ click = 0
            /\ ret' = Outcome("get_all_timetables", program, TRUE, <<>>, "")
            /\ UNCHANGED <<pc, pending>>
    /\ UNCHANGED <<store, nextId, clock, secrets, admin_authed>>
    /\ UNCHANGED hdr

\* delete_timetable's delete executes on the table, or the call raises.
DeleteExec(s, ok) ==
    /\ pc[s] = "delete"
    /\ IF ok
       THEN /\ store' = Delete(store, pending[s].row_id)
            /\ ret' = Outcome("delete_timetable", pending[s].row_id, FALSE, TRUE, "")
       ELSE /\ store' = store
            /\ ret' = Outcome("delete_timetable", pending[s].row_id, TRUE, FALSE,
                              "Delete failed")
    /\ pc' = [pc EXCEPT ![s] = "idle"]
    /\ pending' = [pending EXCEPT ![s] = Idle]
    /\ UNCHANGED <<nextId, clock, secrets, admin_authed>>
    /\ UNCHANGED hdr

\* A script run renders the header: term_label = get_term_week_label().
Header ==
    /\ term_label' = GetTermWeekLabel(today)
    /\ UNCHANGED <<store, nextId, clock, secrets, admin_authed, pc, pending, ret, today>>

\* Midnight passes.
NextDay ==
    /\ today \in Dates
    /\ ToOrdinal(today) + 1 \in {ToOrdinal(d) : d \in Dates}
    /\ today' = FromOrdinal(ToOrdinal(today) + 1)
    /\ term_label' = Unset
    /\ UNCHANGED <<store, nextId, clock, secrets, admin_authed, pc, pending, ret>>

Next ==
    \/ Tick
    \/ \E s \in Sessions : NewSession(s)
    \/ \E s \in Sessions, pw \in Passwords : Login(s, pw)
    \/ \E s \in Sessions : Logout(s)
    \/ \E s \in Sessions, file \in FileInputs, lbl \in FewLabels, p \in Programs :
           Submit(s, file, lbl, p)
    \/ \E s \in Sessions, ok \in BOOLEAN : SaveExec(s, ok)
    \/ \E s \in Sessions, p \in Programs, ok \in BOOLEAN : ViewTimetable(s, p, ok)
    \/ \E s \in Sessions, p \in Programs, ok \in BOOLEAN, click \in 0..MaxRows :
           History(s, p, ok, click)
    \/ \E s \in Sessions, ok \in BOOLEAN : DeleteExec(s, ok)

Spec == Init /\ [][Next]_vars

\* One admin at the upload form, typing every label text.
NextUpload ==
    \/ \E pw \in Passwords : Login("s1", pw)
    \/ \E file \in FileInputs, lbl \in LabelInputs, p \in Programs :
           Submit("s1", file, lbl, p)
    \/ \E ok \in BOOLEAN : SaveExec("s1", ok)

SpecUpload == Init /\ [][NextUpload]_vars

\* The header on every day of the calendar.
InitTerm ==
    /\ store = {}
    /\ nextId = 1
    /\ clock = 0
    /\ secrets = NoSecret
    /\ admin_authed = [s \in Sessions |-> FALSE]
    /\ pc = [s \in Sessions |-> "idle"]
    /\ pending = [s \in Sessions |-> Idle]
    /\ ret = NoCall
    /\ today \in Dates
    /\ term_label = Unset

NextTerm == Header \/ NextDay

SpecTerm == InitTerm /\ [][NextTerm]_vars


\* ------------------------------------------------------------------ claims

Ids(rows) == {r.id : r \in rows}

\* The rows of a program that no other row of it is newer than.
Newest(rows, program) ==
    {r \in RowsOf(rows, program) :
        \A o \in RowsOf(rows, program) : o.uploaded_at <= r.uploaded_at}

\* v is a right answer of get_timetable(program) on rows.
RightCurrent(v, rows, program) ==
    IF RowsOf(rows, program) = {}
    THEN v = None
    ELSE /\ v # None
         /\ v \in rows
         /\ v.program = program
         /\ \A o \in rows : o.program = program => o.uploaded_at <= v.uploaded_at

\* C1: after any saves and deletes, get_timetable(P), the store answering,
\* returns a row of P that is still in the store and has the greatest
\* uploaded_at of P's rows, and returns None exactly when P has no row left.
C1_CurrentIsNewest ==
    /\ \A p \in Programs : \A v \in GetTimetable(store, p) : RightCurrent(v, store, p)
    /\ (ret.op = "get_timetable" /\ ~ret.raised) => RightCurrent(ret.value, store, ret.arg)

\* A read that returned the newer of two rows of a program with different times.
C1_Witness ==
    /\ ret.op = "get_timetable"
    /\ ~ret.raised
    /\ ret.value # None
    /\ \E o \in RowsOf(store, ret.arg) : o.uploaded_at < ret.value.uploaded_at

\* A step in which session s's insert executed and the table took the row.
SaveSucceeds(s) == pc[s] = "insert" /\ pc'[s] = "idle" /\ store' # store

\* C2 as stated: once a save to P has succeeded, get_timetable(P) returns the
\* row just saved, for every interleaving of the sessions' uploads (read in
\* the claim's favour: the saved row is among the rows the call may return).
C2_SavedIsCurrent ==
    [][\A s \in Sessions :
          SaveSucceeds(s) =>
              (store' \ store) \subseteq GetTimetable(store', pending[s].row.program)]_vars

\* C2 as amended: the row saved carries the uploaded_at that save_timetable
\* read before the insert executed; after the save get_timetable(P) returns a
\* row of P at least as new as it, and the saved row itself whenever every
\* other row of P has a strictly earlier uploaded_at.
C2_LatestTimestampWins ==
    [][\A s \in Sessions :
          SaveSucceeds(s) =>
              LET sent == pending[s].row
                  saved == CHOOSE r \in store' \ store : TRUE
              IN /\ store' \ store = {saved}
                 /\ saved.program = sent.program
                 /\ saved.uploaded_at = sent.uploaded_at
                 /\ saved.uploaded_at <= clock
                 /\ \A v \in GetTimetable(store', sent.program) :
                        /\ v # None
                        /\ v.uploaded_at >= saved.uploaded_at
                        /\ (\A o \in RowsOf(store, sent.program) :
                                o.uploaded_at < saved.uploaded_at) => v = saved]_vars

\* Two rows of a program, the one inserted last carrying the earlier time.
C2_Witness ==
    /\ ret.op = "save_timetable"
    /\ ~ret.raised
    /\ \E a \in store : \E b \in store :
           /\ a.program = b.program
           /\ a.id < b.id
           /\ a.uploaded_at > b.uploaded_at

\* A step in which session s's delete request was answered by the table.
DeleteSucceeds(s) == pc[s] = "delete" /\ pc'[s] = "idle" /\ ~ret'.raised

\* C3: delete_timetable(id) removes the row with that id and nothing else; no
\* list shows the id again; a program's current row is unchanged unless the
\* deleted row could be returned as current, and then get_timetable falls to
\* the newest of the rows left or to None; an id not in the store changes nothing.
C3_DeleteExactlyOne ==
    [][/\ \A s \in Sessions :
            DeleteSucceeds(s) =>
                LET id == pending[s].row_id
                    gone == store \ store'
                IN /\ store' \subseteq store
                   /\ \A r \in gone : r.id = id
                   /\ Cardinality(gone) <= 1
                   /\ id \notin Ids(store')
                   /\ (id \notin Ids(store)) => store' = store
                   /\ \A p \in Programs :
                        /\ \A all_tt \in GetAllTimetables(store', p) :
                               \A i \in 1..Len(all_tt) : all_tt[i].id # id
                        /\ (gone \cap Newest(store, p) = {}) =>
                               GetTimetable(store', p) = GetTimetable(store, p)
                        /\ (gone \cap Newest(store, p) # {}) =>
                               GetTimetable(store', p) =
                                   IF RowsOf(store, p) \ gone = {} THEN {None}
                                   ELSE Newest(store \ gone, p)
       /\ \A id \in 1..(nextId - 1) :
            id \notin Ids(store) => id \notin Ids(store')]_vars

\* A delete has removed one row of a program and left another.
C3_Witness ==
    /\ ret.op = "delete_timetable"
    /\ ~ret.raised
    /\ ret.arg \notin Ids(store)
    /\ ret.arg < nextId
    /\ store # {}

\* A label text of blanks only (the empty text included).
Blank(lbl) == \A i \in 1..Len(lbl) : lbl[i] \in Whitespace

\* t is lbl without its leading and trailing blanks.
IsTrimOf(t, lbl) ==
    \E i \in 1..(Len(lbl) + 1) : \E j \in 0..Len(lbl) :
        /\ t = SubSeq(lbl, i, j)
        /\ \A k \in 1..(i - 1) : lbl[k] \in Whitespace
        /\ \A k \in (j + 1)..Len(lbl) : lbl[k] \in Whitespace
        /\ t # <<>> => (t[1] \notin Whitespace /\ t[Len(t)] \notin Whitespace)

\* C4: a submission without a file, or with a label that is blank after
\* trimming, calls no save_timetable and leaves the store as it was; a row is
\* sent and inserted only for a file and a non-blank label, and the label
\* stored is the trimmed label.
C4_UploadValidated ==
    [][/\ \A s \in Sessions, file \in FileInputs, lbl \in LabelInputs, p \in Programs :
            Submit(s, file, lbl, p) =>
                IF file = NoFile \/ Blank(lbl)
                THEN /\ UNCHANGED <<store, nextId, pc, pending>>
                     /\ ret'.op = "upload_form"
                     /\ ret'.error # ""
                ELSE /\ store' = store
                     /\ pc'[s] = "insert"
                     /\ pending'[s].kind = "insert"
                     /\ IsTrimOf(pending'[s].row.label, lbl)
                     /\ pending'[s].row.filename = file.name
                     /\ pending'[s].row.program = p
       /\ \A s \in Sessions :
            (pc[s] = "idle" /\ pc'[s] = "insert") =>
                \E file \in FileInputs \ {NoFile}, lbl \in LabelInputs, p \in Programs :
                    ~Blank(lbl) /\ Submit(s, file, lbl, p)
       /\ \A r \in store' \ store :
            \E s \in Sessions :
                /\ pc[s] = "insert"
                /\ r.label = pending[s].row.label
                /\ r.label # <<>>
                /\ r.label[1] \notin Whitespace
                /\ r.label[Len(r.label)] \notin Whitespace]_vars

\* A submission was turned down for its label while the store holds a row
\* that an earlier submission put there.
C4_Witness ==
    /\ ret.op = "upload_form"
    /\ ret.error = "Please add a label."
    /\ \E r \in store : r.label = <<"a">>
    /\ \A s \in Sessions : pc[s] = "idle"

\* C5: the store changes only in a step of a session whose admin_authed is
\* true; a session that is not logged in has no request under way; a login
\* that fails changes neither a flag nor the store.
C5_MutationsGated ==
    [][/\ store' # store =>
            \E s \in Sessions :
                /\ pc[s] \in {"insert", "delete"}
                /\ pc'[s] = "idle"
                /\ admin_authed[s]
                /\ admin_authed'[s]
       /\ \A s \in Sessions :
            /\ ~admin_authed[s] => pc[s] = "idle"
            /\ (~admin_authed[s] /\ ~admin_authed'[s]) => pc'[s] = "idle"
       /\ \A s \in Sessions, pw \in Passwords :
            (Login(s, pw) /\ ret'.value = FALSE) =>
                UNCHANGED <<store, nextId, admin_authed, pc, pending>>]_vars

\* A login has failed while the store holds a row and a session is logged out.
C5_Witness ==
    /\ ret.op = "verify_admin"
    /\ ret.value = FALSE
    /\ store # {}
    /\ \E s \in Sessions : ~admin_authed[s]

\* The password that opens the admin panel.
ExpectedPassword ==
    IF secrets = NoSecret THEN "CLC2026admin" ELSE secrets.ADMIN_PASSWORD

\* C6: verify_admin(password) is true exactly for the configured secret, or
\* for the fixed default when none is configured; admin_authed starts false,
\* in a new session too, turns true only in a login whose password verifies,
\* and is false after logout.
C6_AdminGate ==
    /\ \A s \in Sessions : ~admin_authed[s]
    /\ [][/\ \A pw \in Passwords : VerifyAdmin(secrets, pw) <=> pw = ExpectedPassword
          /\ ret'.op = "verify_admin" => (ret'.value <=> ret'.arg = ExpectedPassword)
          /\ \A s \in Sessions :
               /\ (~admin_authed[s] /\ admin_authed'[s]) =>
                      /\ ret'.op = "verify_admin"
                      /\ ret'.arg = ExpectedPassword
                      /\ ret'.value = TRUE
               /\ \A pw \in Passwords :
                      Login(s, pw) => (admin_authed'[s] <=> pw = ExpectedPassword)
               /\ Logout(s) => ~admin_authed'[s]
               /\ NewSession(s) => ~admin_authed'[s]]_vars

\* With a secret configured, a login with it has opened a session.
C6_Witness ==
    /\ secrets # NoSecret
    /\ ret.op = "verify_admin"
    /\ ret.value = TRUE
    /\ \E s \in Sessions : admin_authed[s]
    /\ \E s \in Sessions : ~admin_authed[s]

RepositoryCalls ==
    {"get_timetable", "get_all_timetables", "save_timetable", "delete_timetable"}

\* C7: when the store call raises, get_timetable returns None,
\* get_all_timetables an empty list, save_timetable and delete_timetable
\* False; the store and the admin flags are unchanged; and for each of the
\* four an error message is shown.
C7_FailsGracefully ==
    [][(ret'.op \in RepositoryCalls /\ ret'.raised /\ ret' # ret) =>
          /\ store' = store
          /\ nextId' = nextId
          /\ admin_authed' = admin_authed
          /\ ret'.op = "get_timetable" => ret'.value = None
          /\ ret'.op = "get_all_timetables" => ret'.value = <<>>
          /\ ret'.op \in {"save_timetable", "delete_timetable"} => ret'.value = FALSE
          /\ ret'.error # ""]_vars

\* C10: under every interleaving of the sessions' uploads and deletes, a
\* program that has a row never becomes empty again: the delete button is
\* offered only below the first listed row, which is the current one.
C10_CurrentNeverDeleted ==
    [][\A p \in Programs : RowsOf(store, p) # {} => RowsOf(store', p) # {}]_vars

\* Day numbers of a term: its first Monday and its last day.
TermFirst(i) == ToOrdinal(SA_TERMS[i][2])

TermLast(i) == TermFirst(i) + SA_TERMS[i][3] * 7 - 1

TermsOn(n) == {i \in 1..Len(SA_TERMS) : TermFirst(i) <= n /\ n <= TermLast(i)}

\* C8: on a day from the first Monday of term n to its last day, both
\* included, the label is Term n, Week floor((d - firstMonday) / 7) + 1, a
\* week from 1 to the term's weeks; before the first term it is the pre-term
\* marker; on every other day the holiday marker; no day lies in two terms.
C8_TermWeekLabel ==
    term_label # Unset =>
        LET n == ToOrdinal(today)
        IN /\ Cardinality(TermsOn(n)) <= 1
           /\ \A i \in TermsOn(n) :
                LET w == ((n - TermFirst(i)) \div 7) + 1
                IN /\ term_label = TermWeek(SA_TERMS[i][1], w)
                   /\ 1 <= w
                   /\ w <= SA_TERMS[i][3]
           /\ (TermsOn(n) = {} /\ n < TermFirst(1)) => term_label = PreTerm
           /\ (TermsOn(n) = {} /\ n >= TermFirst(1)) => term_label = Holidays

\* The header on the last day of term 4, Sunday 2026-12-13: week 9.
C8_Witness ==
    /\ today = MkDate(2026, 12, 13)
    /\ term_label = TermWeek(4, 9)

\* Term 1 ends on 2026-04-12; term 2 starts on 2026-04-27.
BetweenTerm1And2(d) == DateLT(MkDate(2026, 4, 12), d) /\ DateLT(d, MkDate(2026, 4, 27))

\* C9 as stated: 2026-01-26 is Term 1, Week 1; 2026-02-01 is Term 1, Week 2;
\* 2026-01-01 is pre-term; the days between term 1 and term 2 are holidays.
C9_Examples ==
    term_label # Unset =>
        /\ today = MkDate(2026, 1, 26) => term_label = TermWeek(1, 1)
        /\ today = MkDate(2026, 2, 1) => term_label = TermWeek(1, 2)
        /\ today = MkDate(2026, 1, 1) => term_label = PreTerm
        /\ BetweenTerm1And2(today) => term_label = Holidays

\* C9 as amended: 2026-02-01, six days after the first Monday, is still
\* Term 1, Week 1; Week 2 starts on 2026-02-02.
C9_ExamplesAmended ==
    term_label # Unset =>
        /\ today = MkDate(2026, 1, 26) => term_label = TermWeek(1, 1)
        /\ today = MkDate(2026, 2, 1) => term_label = TermWeek(1, 1)
        /\ today = MkDate(2026, 2, 2) => term_label = TermWeek(1, 2)
        /\ today = MkDate(2026, 1, 1) => term_label = PreTerm
        /\ BetweenTerm1And2(today) => term_label = Holidays

\* The header on Sunday 2026-02-01.
C9_Witness ==
    /\ today = MkDate(2026, 2, 1)
    /\ term_label = TermWeek(1, 1)

====
